---------------------------- MODULE Spec2Model ----------------------------
(***************************************************************************)
(* Verification model of the hyper-EP constitutive update of lgrtk         *)
(* (src/v2/src/lgr_hyper_ep.hpp): flow_stress, dflow_stress, find_bbe,     *)
(* radial_return, linearelasticstress, hyperstress and eval.               *)
(*                                                                         *)
(* The C++ type double is modelled by a decimal floating-point format      *)
(* with a significand of Digits decimal digits, round-to-nearest-even, an  *)
(* exponent range of +-MaxExp and the IEEE special values +Inf, -Inf and   *)
(* NaN.  A value is the pair <<m, e>> standing for m * 10^e; a finite      *)
(* non-zero value is normalised (10^(Digits-1) <= |m| < 10^Digits).        *)
(***************************************************************************)
EXTENDS Integers, Sequences, FiniteSets, TLC

(***************************************************************************)
(* double                                                                  *)
(***************************************************************************)
Digits == 4
MaxExp == 300
SpecialExp == 9999

MantLo == 1000
MantHi == 10000

NaN == <<0, SpecialExp>>
PInf == <<1, SpecialExp>>
NInf == <<-1, SpecialExp>>
Zero == <<0, 0>>

IsNaN(x) == x[2] = SpecialExp /\ x[1] = 0
IsInf(x) == x[2] = SpecialExp /\ x[1] # 0
IsFin(x) == x[2] # SpecialExp
IsZero(x) == x[2] # SpecialExp /\ x[1] = 0

Sgn(n) == IF n > 0 THEN 1 ELSE IF n < 0 THEN -1 ELSE 0
AbsI(n) == IF n < 0 THEN -n ELSE n

Pow10(k) ==
  CASE k = 0 -> 1
    [] k = 1 -> 10
    [] k = 2 -> 100
    [] k = 3 -> 1000
    [] k = 4 -> 10000
    [] k = 5 -> 100000
    [] k = 6 -> 1000000
    [] k = 7 -> 10000000
    [] k = 8 -> 100000000
    [] k = 9 -> 1000000000

\* number of decimal digits of n > 0
NumDigits(n) ==
  IF n < 10000
  THEN IF n < 100 THEN (IF n < 10 THEN 1 ELSE 2)
                  ELSE (IF n < 1000 THEN 3 ELSE 4)
  ELSE IF n < 1000000
       THEN (IF n < 100000 THEN 5 ELSE 6)
       ELSE IF n < 100000000
            THEN (IF n < 10000000 THEN 7 ELSE 8)
            ELSE (IF n < 1000000000 THEN 9 ELSE 10)

\* exponent overflow gives an infinity, underflow gives zero
Ranged(m, e) ==
  IF e > MaxExp THEN (IF m > 0 THEN PInf ELSE NInf)
  ELSE IF e < -MaxExp THEN Zero
  ELSE <<m, e>>

\* the double nearest to the integer m times 10^e (ties to even): the
\* significand a of d digits is cut to the quotient q and the remainder r of
\* its division by p, and q goes up on r > p/2 and on a tie with q odd
RoundCarry(s, q1, e) ==
  IF q1 = MantHi THEN Ranged(s * MantLo, e + 1) ELSE Ranged(s * q1, e)
RoundCut(s, q, r, p, e) ==
  RoundCarry(s, IF 2 * r > p \/ (2 * r = p /\ q % 2 = 1) THEN q + 1 ELSE q, e)
RoundDigits(s, a, d, e) ==
  IF d <= Digits
  THEN Ranged(s * a * Pow10(Digits - d), e - (Digits - d))
  ELSE RoundCut(s, a \div Pow10(d - Digits), a % Pow10(d - Digits), Pow10(d - Digits),
                e + (d - Digits))
RoundAbs(s, a, e) == RoundDigits(s, a, NumDigits(a), e)
Round(m, e) == IF m = 0 THEN Zero ELSE RoundAbs(Sgn(m), AbsI(m), e)

\* an integer literal as a double
Lit(n) == Round(n, 0)

FNeg(x) == IF IsNaN(x) THEN NaN ELSE <<-x[1], x[2]>>

\* the sum of two finite nonzero doubles, hi the one of the larger exponent
AddAligned(hi, lo) ==
  IF hi[2] - lo[2] > Digits + 1 THEN hi
  ELSE Round(hi[1] * Pow10(hi[2] - lo[2]) + lo[1], lo[2])

FAdd(x, y) ==
  IF IsNaN(x) \/ IsNaN(y) THEN NaN
  ELSE IF IsInf(x) THEN (IF IsInf(y) /\ y[1] # x[1] THEN NaN ELSE x)
  ELSE IF IsInf(y) THEN y
  ELSE IF x[1] = 0 THEN y
  ELSE IF y[1] = 0 THEN x
  ELSE IF x[2] >= y[2] THEN AddAligned(x, y) ELSE AddAligned(y, x)

FSub(x, y) == FAdd(x, FNeg(y))

FMul(x, y) ==
  IF IsNaN(x) \/ IsNaN(y) THEN NaN
  ELSE IF IsInf(x) \/ IsInf(y)
       THEN (IF x[1] = 0 \/ y[1] = 0 THEN NaN
             ELSE IF Sgn(x[1]) * Sgn(y[1]) > 0 THEN PInf ELSE NInf)
  ELSE Round(x[1] * y[1], x[2] + y[2])

\* the quotient of the integers n and d with a sticky last digit
DivSticky(s, n, d, e) == Round(s * ((n \div d) * 10 + (IF n % d # 0 THEN 1 ELSE 0)), e)

FDiv(x, y) ==
  IF IsNaN(x) \/ IsNaN(y) THEN NaN
  ELSE IF IsInf(x)
       THEN (IF IsInf(y) THEN NaN
             ELSE IF Sgn(x[1]) * (IF y[1] < 0 THEN -1 ELSE 1) > 0 THEN PInf ELSE NInf)
  ELSE IF IsInf(y) THEN Zero
  ELSE IF y[1] = 0
       THEN (IF x[1] = 0 THEN NaN ELSE IF x[1] > 0 THEN PInf ELSE NInf)
  ELSE IF x[1] = 0 THEN Zero
  ELSE DivSticky(Sgn(x[1]) * Sgn(y[1]), AbsI(x[1]) * Pow10(Digits + 1), AbsI(y[1]),
                 x[2] - y[2] - Digits - 2)

\* x < y, false when either is NaN
FLt(x, y) ==
  IF IsNaN(x) \/ IsNaN(y) THEN FALSE
  ELSE IF IsInf(x) THEN x[1] < 0 /\ y # NInf
  ELSE IF IsInf(y) THEN y[1] > 0
  ELSE FSub(x, y)[1] < 0

FLe(x, y) ==
  IF IsNaN(x) \/ IsNaN(y) THEN FALSE
  ELSE x = y \/ FLt(x, y)

FGt(x, y) == FLt(y, x)
FEq(x, y) == ~IsNaN(x) /\ ~IsNaN(y) /\ x = y

\* std::max(a, b) is (a < b) ? b : a, std::min(a, b) is (b < a) ? b : a
FMax(a, b) == IF FLt(a, b) THEN b ELSE a
FMin(a, b) == IF FLt(b, a) THEN b ELSE a

\* std::abs
FAbs(x) == IF IsNaN(x) THEN NaN ELSE <<AbsI(x[1]), x[2]>>

RECURSIVE ISqrtSearch(_, _, _)
ISqrtSearch(n, lo, hi) ==
  IF hi - lo <= 1 THEN lo
  ELSE LET mid == (lo + hi) \div 2
       IN IF mid * mid <= n THEN ISqrtSearch(n, mid, hi)
                            ELSE ISqrtSearch(n, lo, mid)

\* floor of the square root of 0 <= n < 10^9
ISqrt(n) == ISqrtSearch(n, 0, 31623)

\* the next decimal digit of a square root: the largest d with
\* (10 r + d)^2 <= 100 n, given rem = n - r^2
SqrtDigit(r, rem) ==
  CHOOSE d \in 0..9 :
    /\ 20 * r * d + d * d <= 100 * rem
    /\ (d = 9 \/ 20 * r * (d + 1) + (d + 1) * (d + 1) > 100 * rem)

\* the root r of n, its next digit d and a sticky digit, rounded
SqrtRound(r, rem, d, e) ==
  Round((10 * r + d) * 10 + (IF 20 * r * d + d * d = 100 * rem THEN 0 ELSE 1), e)
SqrtRem(n, r, e) == SqrtRound(r, n - r * r, SqrtDigit(r, n - r * r), e)
SqrtScaled(n, e) == SqrtRem(n, ISqrt(n), (e \div 2) - 2)

\* std::sqrt, correctly rounded
FSqrt(x) ==
  IF IsNaN(x) THEN NaN
  ELSE IF x = PInf THEN PInf
  ELSE IF x[1] < 0 THEN NaN
  ELSE IF x[1] = 0 THEN Zero
  ELSE IF x[2] % 2 = 1 THEN SqrtScaled(x[1] * 100000, x[2] - 5)
  ELSE SqrtScaled(x[1] * 10000, x[2] - 4)

\* the real cube root of x, correctly rounded up to the last digit: an integer
\* cube root of the scaled significand refined by one Newton step
RECURSIVE ICbrtSearch(_, _, _)
ICbrtSearch(n, lo, hi) ==
  IF hi - lo <= 1 THEN lo
  ELSE LET mid == (lo + hi) \div 2
       IN IF mid * mid * mid <= n THEN ICbrtSearch(n, mid, hi)
                                  ELSE ICbrtSearch(n, lo, mid)

CbrtNewton(x, r0) == FDiv(FAdd(FMul(Lit(2), r0), FDiv(x, FMul(r0, r0))), Lit(3))
CbrtScaled(x, k) ==
  CbrtNewton(x, Round(Sgn(x[1]) * ICbrtSearch(AbsI(x[1]) * Pow10(k + 3), 0, 1291),
                      (x[2] - k - 3) \div 3))

FCbrt(x) ==
  IF ~IsFin(x) THEN x
  ELSE IF x[1] = 0 THEN Zero
  ELSE CbrtScaled(x, x[2] % 3)

\* std::pow(x, y) for the integral exponents y = 0, 1, 2, 3 the model draws
FPow(x, y) ==
  CASE y = Zero -> Lit(1)
    [] y = Lit(1) -> x
    [] y = Lit(2) -> FMul(x, x)
    [] y = Lit(3) -> FMul(FMul(x, x), x)

\* std::pow(jac, 2./3.) and std::pow(jac, -1./3.)
FPowTwoThirds(x) == FCbrt(FMul(x, x))
FPowMinusThird(x) == FDiv(Lit(1), FCbrt(x))

(***************************************************************************)
(* tensor_type = Matrix<3, 3> and the Omega_h operations the code calls    *)
(***************************************************************************)
Idx == 1..3

Mat(f(_, _)) == [i \in Idx |-> [j \in Idx |-> f(i, j)]]

identity_matrix == [i \in Idx |-> [j \in Idx |-> IF i = j THEN Lit(1) ELSE Zero]]

MAdd(A, B) == [i \in Idx |-> [j \in Idx |-> FAdd(A[i][j], B[i][j])]]
MSub(A, B) == [i \in Idx |-> [j \in Idx |-> FSub(A[i][j], B[i][j])]]
MScale(a, A) == [i \in Idx |-> [j \in Idx |-> FMul(a, A[i][j])]]
MDivS(A, a) == [i \in Idx |-> [j \in Idx |-> FDiv(A[i][j], a)]]
MMul(A, B) ==
  [i \in Idx |-> [j \in Idx |->
     FAdd(FAdd(FMul(A[i][1], B[1][j]), FMul(A[i][2], B[2][j])), FMul(A[i][3], B[3][j]))]]
transpose(A) == [i \in Idx |-> [j \in Idx |-> A[j][i]]]
trace(A) == FAdd(FAdd(A[1][1], A[2][2]), A[3][3])

\* Omega_h::deviator: A - (trace(A) / 3) I
deviator(A) ==
  LET m == FDiv(trace(A), Lit(3))
  IN [i \in Idx |-> [j \in Idx |-> IF i = j THEN FSub(A[i][j], m) ELSE A[i][j]]]

\* Omega_h::norm: the Frobenius norm
RowSq(A, i) ==
  FAdd(FAdd(FMul(A[i][1], A[i][1]), FMul(A[i][2], A[i][2])), FMul(A[i][3], A[i][3]))
norm(A) == FSqrt(FAdd(FAdd(RowSq(A, 1), RowSq(A, 2)), RowSq(A, 3)))

Det2(a, b, c, d) == FSub(FMul(a, d), FMul(b, c))

determinant(A) ==
  FAdd(FSub(FMul(A[1][1], Det2(A[2][2], A[2][3], A[3][2], A[3][3])),
            FMul(A[1][2], Det2(A[2][1], A[2][3], A[3][1], A[3][3]))),
       FMul(A[1][3], Det2(A[2][1], A[2][2], A[3][1], A[3][2])))

\* Omega_h::invert: adjugate over determinant
Nxt(i) == (i % 3) + 1
invert(A) ==
  LET d == determinant(A)
  IN [i \in Idx |-> [j \in Idx |->
        FDiv(Det2(A[Nxt(j)][Nxt(i)], A[Nxt(j)][Nxt(Nxt(i))],
                  A[Nxt(Nxt(j))][Nxt(i)], A[Nxt(Nxt(j))][Nxt(Nxt(i))]), d)]]

\* Omega_h::sqrt_spd for a symmetric tensor whose xz and yz entries vanish
\* (every tensor the model draws): the closed form of the 2x2 principal square
\* root for the xy block and the scalar square root for zz
sqrt_spd(A) ==
  LET s == FSqrt(Det2(A[1][1], A[1][2], A[2][1], A[2][2]))
      t == FSqrt(FAdd(FAdd(A[1][1], A[2][2]), FMul(Lit(2), s)))
  IN <<  <<FDiv(FAdd(A[1][1], s), t), FDiv(A[1][2], t), Zero>>,
         <<FDiv(A[2][1], t), FDiv(FAdd(A[2][2], s), t), Zero>>,
         <<Zero, Zero, FSqrt(A[3][3])>>  >>

(***************************************************************************)
(* enum ErrorCode, Elastic, Hardening, RateDependence, StateFlag           *)
(***************************************************************************)
ErrorCode == {"NOT_SET", "SUCCESS", "LINEAR_ELASTIC_FAILURE", "HYPERELASTIC_FAILURE",
              "RADIAL_RETURN_FAILURE", "ELASTIC_DEFORMATION_UPDATE_FAILURE",
              "MODEL_EVAL_FAILURE"}
Elastic == {"LINEAR_ELASTIC", "NEO_HOOKEAN"}
\* the hardening models whose flow stress needs neither exp nor log; the
\* rate dependence is RateDependence::NONE throughout
Hardening == {"NONE", "LINEAR_ISOTROPIC", "POWER_LAW"}
StateFlag == {"NONE", "TRIAL", "ELASTIC", "PLASTIC", "REMAPPED"}

\* props[i] of the std::vector<double> props (0-based in the code)
Prop(props, i) == props[i + 1]

\* std::numeric_limits<double>::max()
MaxDouble == <<MantHi - 1, MaxExp>>

(***************************************************************************)
(* flow_stress and dflow_stress                                            *)
(***************************************************************************)
flow_stress(hardening, props, temp, ep, epdot) ==
  CASE hardening = "NONE" -> Prop(props, 2)
    [] hardening = "LINEAR_ISOTROPIC" ->
         FAdd(Prop(props, 2), FMul(Prop(props, 3), ep))
    [] hardening = "POWER_LAW" ->
         LET a == Prop(props, 2)
             b == Prop(props, 3)
             n == Prop(props, 4)
         IN IF FGt(ep, Zero) THEN FAdd(a, FMul(b, FPow(ep, n))) ELSE a
    [] OTHER -> MaxDouble

\* constexpr double sq23 = 0.8164965809277261 of dflow_stress
Sq23Literal == Round(816496581, -9)

dflow_stress(hardening, props, temp, ep, epdot, dtime) ==
  LET deriv ==
        CASE hardening = "LINEAR_ISOTROPIC" -> Prop(props, 3)
          [] hardening = "POWER_LAW" ->
               LET b == Prop(props, 3)
                   n == Prop(props, 4)
               IN IF FGt(ep, Zero)
                  THEN FMul(FMul(b, n), FPow(ep, FSub(n, Lit(1))))
                  ELSE Zero
          [] OTHER -> Zero
  IN FMul(Sq23Literal, deriv)

(***************************************************************************)
(* find_bbe: the residual, its derivative and one Newton step              *)
(***************************************************************************)
\* txy = .5*(tau(0,1) + tau(1,0)) and its like
SymPart(tau, i, j) == FMul(Round(5, -1), FAdd(tau[i][j], tau[j][i]))

\* fun(bzz): det(BBe) - 1
bbe_fun(tau, mu, bzz) ==
  LET txx == tau[1][1]
      tyy == tau[2][2]
      tzz == tau[3][3]
      txy == SymPart(tau, 1, 2)
      txz == SymPart(tau, 1, 3)
      tyz == SymPart(tau, 2, 3)
      bm == FMul(bzz, mu)
      nbm == FMul(FNeg(bzz), mu)
      a1 == FSub(FAdd(bm, txx), tzz)
      a2 == FSub(FAdd(bm, tyy), tzz)
      t1 == FMul(bm, FAdd(FMul(FNeg(txy), txy), FMul(a1, a2)))
      t2 == FMul(FMul(FMul(Lit(2), txy), txz), tyz)
      t3 == FMul(FMul(txz, txz), FAdd(FSub(nbm, tyy), tzz))
      t4 == FMul(FMul(tyz, tyz), FAdd(FSub(nbm, txx), tzz))
      f2 == FDiv(FAdd(FAdd(FAdd(t1, t2), t3), t4), FMul(FMul(mu, mu), mu))
  IN FSub(f2, Lit(1))

\* dfun(bzz): d(det(BBe) - 1)/d(be_zz)
bbe_dfun(tau, mu, bzz) ==
  LET txx == tau[1][1]
      tyy == tau[2][2]
      tzz == tau[3][3]
      txy == SymPart(tau, 1, 2)
      txz == SymPart(tau, 1, 3)
      tyz == SymPart(tau, 2, 3)
      bm == FMul(bzz, mu)
      a1 == FSub(FAdd(bm, txx), tzz)
      a2 == FSub(FAdd(bm, tyy), tzz)
      s1 == FSub(FAdd(FAdd(FMul(FMul(Lit(2), bzz), mu), txx), tyy), FMul(Lit(2), tzz))
      t1 == FMul(bm, s1)
      num == FAdd(FSub(FSub(FSub(t1, FMul(txy, txy)), FMul(txz, txz)), FMul(tyz, tyz)),
                  FMul(a1, a2))
  IN FDiv(num, FMul(mu, mu))

\* bzz_new = bzz_old - fun(bzz_old) / dfun(bzz_old)
bbe_newton(tau, mu, bzz) ==
  FSub(bzz, FDiv(bbe_fun(tau, mu, bzz), bbe_dfun(tau, mu, bzz)))

\* Be with its diagonal rewritten for bzz_new (lines 279-281)
bbe_set_diag(Be, tau, mu, bzz) ==
  LET inv == FDiv(Lit(1), mu)
      bxx == FMul(inv, FSub(FAdd(FMul(mu, bzz), tau[1][1]), tau[3][3]))
      byy == FMul(inv, FSub(FAdd(FMul(mu, bzz), tau[2][2]), tau[3][3]))
  IN [Be EXCEPT ![1][1] = bxx, ![2][2] = byy, ![3][3] = bzz]

\* int maxit = 25, double tol = 1e-12 of find_bbe
bbe_maxit == 25
bbe_tol == Round(1, -12)

\* (bzz_new-bzz_old)*(bzz_new-bzz_old) < tol
bbe_converged(bzz_new, bzz_old) ==
  FLt(FMul(FSub(bzz_new, bzz_old), FSub(bzz_new, bzz_old)), bbe_tol)

(***************************************************************************)
(* linearelasticstress and hyperstress                                     *)
(***************************************************************************)
linearelasticstress(props, Fe) ==
  LET K == FDiv(Prop(props, 0),
                FMul(Lit(3), FSub(Lit(1), FMul(Lit(2), Prop(props, 1)))))
      G == FDiv(FDiv(Prop(props, 0), Lit(2)), FAdd(Lit(1), Prop(props, 1)))
      I == identity_matrix
      grad_u == MSub(Fe, I)
      strain == MScale(FDiv(Lit(1), Lit(2)), MAdd(grad_u, transpose(grad_u)))
      isotropic_strain == MScale(FDiv(trace(strain), Lit(3)), I)
      deviatoric_strain == MSub(strain, isotropic_strain)
  IN MAdd(MScale(FMul(Lit(3), K), isotropic_strain),
          MScale(FMul(Lit(2), G), deviatoric_strain))

hyperstress(props, Fe, jac) ==
  LET E == Prop(props, 0)
      Nu == Prop(props, 1)
      scale == FPowMinusThird(jac)
      Fb == MScale(scale, Fe)
      C10 == FDiv(E, FMul(Lit(4), FAdd(Lit(1), Nu)))
      D1 == FDiv(FMul(Lit(6), FSub(Lit(1), FMul(Lit(2), Nu))), E)
      EG == FDiv(FMul(Lit(2), C10), jac)
      Bb0 == MMul(Fb, transpose(Fb))
      TRBb == FDiv(trace(Bb0), Lit(3))
      Bb == [i \in Idx |-> [j \in Idx |->
               IF i = j THEN FSub(Bb0[i][j], TRBb) ELSE Bb0[i][j]]]
      T0 == MScale(EG, Bb)
      PR == FMul(FDiv(Lit(2), D1), FSub(jac, Lit(1)))
  IN [i \in Idx |-> [j \in Idx |-> IF i = j THEN FAdd(T0[i][j], PR) ELSE T0[i][j]]]

(***************************************************************************)
(* radial_return: constants and the pieces of its body                     *)
(***************************************************************************)
\* const double tol1 = 1e-12; const double tol2 = std::min(dtime, 1e-6)
tol1 == Round(1, -12)
tol2(dtime) == FMin(dtime, Round(1, -6))
twothird == FDiv(Lit(2), Lit(3))
sq2 == FSqrt(Lit(2))
sq3 == FSqrt(Lit(3))
sq23 == FDiv(sq2, sq3)
sq32 == FDiv(Lit(1), sq23)

\* mu = E / 2.0 / (1. + Nu); twomu = 2. * mu
ShearModulus(props) == FDiv(FDiv(Prop(props, 0), Lit(2)), FAdd(Lit(1), Prop(props, 1)))
TwoMu(props) == FMul(Lit(2), ShearModulus(props))

\* double gamma = epdot * dtime * sq32
GammaSeed(epdot, dtime) == FMul(FMul(epdot, dtime), sq32)

\* a variant that overwrites the flag unconditionally: flag = <new>
SetFlagAlways(flag, new) == new

\* if (flag != StateFlag::REMAPPED) flag = <new>
SetFlag(flag, new) == IF flag # "REMAPPED" THEN new ELSE flag

\* f = norm / sq2 - Y / sq3
YieldValue(nrm, Y) == FSub(FDiv(nrm, sq2), FDiv(Y, sq3))

\* if (f <= tol1): the elastic branch is taken
IsElastic(f) == FLe(f, tol1)

\* a variant that scales the trial stress: T = 2. * Te
ElasticStressDoubled(Te) == MScale(Lit(2), Te)

\* T = 1. * Te
ElasticStress(Te) == MScale(Lit(1), Te)

\* for (int iter=0; iter<100; iter++)
rr_maxit == 100
\* iter > 24 of the weaker convergence test
rr_weakit == 24

\* double dep = std::max(sq23 * gamma, 0.0)
PlasticIncrement(gamma) == FMax(FMul(sq23, gamma), Zero)

\* S0 - twomu * gamma * N, also Te - twomu * gamma * N
ReturnedStress(X, twomu, gamma, N) == MSub(X, MScale(FMul(twomu, gamma), N))

\* the acceptance tests of one iteration, in the order of the code:
\* 1 for f < tol1 and for |dgamma| < tol2, 2 for the weaker test, 0 for none
AcceptF(f) == FLt(f, tol1)
AcceptDGamma(dgamma, dtime) == FLt(FAbs(dgamma), tol2(dtime))
AcceptWeak(iter, f) == iter > rr_weakit /\ FLe(f, FMul(tol1, Lit(1000)))

ConvCode(iter, f, dgamma, dtime) ==
  IF AcceptF(f) THEN 1
  ELSE IF AcceptDGamma(dgamma, dtime) THEN 1
  ELSE IF AcceptWeak(iter, f) THEN 2
  ELSE 0

\* a variant that takes the weaker convergence for a failure: if (conv != 1)
NotConvergedStrict(conv) == conv # 1

\* if (!conv) return ErrorCode::RADIAL_RETURN_FAILURE
NotConverged(conv) == conv = 0

\* a variant that ignores the error code of find_bbe
BbeFailedNever(err_c) == FALSE

\* if (err_c != ErrorCode::SUCCESS) return err_c
BbeFailed(err_c) == err_c # "SUCCESS"

\* a variant that determines the elastic deformation whatever the flag
NeedsRecoveryAlways(flag) == TRUE

\* if (flag != StateFlag::ELASTIC): the elastic deformation is determined
NeedsRecovery(flag) == flag # "ELASTIC"

\* dgamma = -g / dg with g = norm_S0 - sq23 * Y - twomu * gamma and
\* dg = -twothird * dydg - twomu (lines 516-523)
NewtonDGamma(norm_S0, twomu, gamma, Yn, dydg) ==
  FDiv(FNeg(FSub(FSub(norm_S0, FMul(sq23, Yn)), FMul(twomu, gamma))),
       FSub(FMul(FNeg(twothird), dydg), twomu))

\* the state update and the acceptance tests (lines 528-545)
NewtonResult(dtime, ep, iter, Yn, dgamma, gamma1, dep, f1) ==
  [Y |-> Yn, dgamma |-> dgamma, gamma |-> gamma1, dep |-> dep,
   epdot |-> FDiv(dep, dtime), ep |-> FAdd(ep, dep), f |-> f1,
   conv |-> ConvCode(iter, f1, dgamma, dtime)]

\* dep and f for the updated gamma (lines 527-532)
NewtonWithGamma(twomu, dtime, S0, N, ep, iter, Yn, dgamma, gamma1) ==
  NewtonResult(dtime, ep, iter, Yn, dgamma, gamma1, PlasticIncrement(gamma1),
               YieldValue(norm(ReturnedStress(S0, twomu, gamma1, N)), Yn))

\* gamma += dgamma (line 524)
NewtonWithY(twomu, dtime, S0, norm_S0, N, gamma, ep, iter, Yn, dgamma) ==
  NewtonWithGamma(twomu, dtime, S0, N, ep, iter, Yn, dgamma, FAdd(gamma, dgamma))

\* one pass through the body of the return-mapping loop (lines 512-545)
NewtonBody(hardening, props, temp, dtime, S0, norm_S0, N, gamma, ep, epdot, iter) ==
  NewtonWithY(TwoMu(props), dtime, S0, norm_S0, N, gamma, ep, iter,
              flow_stress(hardening, props, temp, ep, epdot),
              NewtonDGamma(norm_S0, TwoMu(props), gamma,
                           flow_stress(hardening, props, temp, ep, epdot),
                           dflow_stress(hardening, props, temp, ep, epdot, dtime)))

\* the pressure of the REMAPPED correction (lines 584-586)
RemapPressure(props, jac, T) ==
  LET p0 == trace(T)
      D1 == FDiv(FMul(Lit(6), FSub(Lit(1), FMul(Lit(2), Prop(props, 1)))), Prop(props, 0))
  IN FSub(FMul(FDiv(FMul(Lit(2), jac), D1), FSub(jac, Lit(1))), FDiv(p0, Lit(3)))

\* for(int i = 0; i < 3; ++i) T(i,i) = p
RemapCorrect(T, p) == [i \in Idx |-> [j \in Idx |-> IF i = j THEN p ELSE T[i][j]]]

\* Be = Bbe * pow(jac, 2./3.); Ve = sqrt_spd(Be); Fp = invert(Ve) * F
PlasticGradient(Bbe, jac, F) ==
  LET Be == MScale(FPowTwoThirds(jac), Bbe)
      Ve == sqrt_spd(Be)
  IN MMul(invert(Ve), F)

\* wave_speed of eval (lines 664-667)
WaveSpeed(props, rho) ==
  LET K == FDiv(FDiv(Prop(props, 0), Lit(3)),
                FSub(Lit(1), FMul(Lit(2), Prop(props, 1))))
      G == FDiv(FDiv(Prop(props, 0), Lit(2)), FAdd(Lit(1), Prop(props, 1)))
      plane_wave_modulus == FAdd(K, FMul(FDiv(Lit(4), Lit(3)), G))
  IN FSqrt(FDiv(plane_wave_modulus, rho))

\* the stress predictor of eval (lines 672-681)
Predictor(elastic, props, F, Fp) ==
  LET Fe == MMul(F, invert(Fp))
  IN IF elastic = "LINEAR_ELASTIC" THEN linearelasticstress(props, Fe)
     ELSE hyperstress(props, Fe, determinant(F))

(***************************************************************************)
(* Inputs                                                                  *)
(***************************************************************************)
\* the largest amplitude of a trial stress or a deformation, and the number
\* of calls made on the material point
MaxAmp == 4
MaxCalls == 2

ZeroMat == [i \in Idx |-> [j \in Idx |-> Zero]]

\* props = {E, Nu, A, B, N, ...}: E = 2, Nu = 0 in the stress unit 10^k
MakeProps(k, A, B, n) ==
  <<Round(2, k), Zero, Round(A, k), Round(B, k), Lit(n), Zero, Zero, Zero, Zero, Zero>>

\* the material models: perfectly plastic with a low yield stress and with a
\* yield stress of four shear moduli (a trial stress below yield is then large
\* enough for find_bbe to settle on an indefinite root), perfectly plastic in
\* a stress unit of 10^-8, linear and power-law hardening
Materials ==
  { [elastic |-> "LINEAR_ELASTIC", hardening |-> "NONE", props |-> MakeProps(0, 1, 0, 1)],
    [elastic |-> "NEO_HOOKEAN", hardening |-> "NONE", props |-> MakeProps(0, 4, 0, 1)],
    [elastic |-> "LINEAR_ELASTIC", hardening |-> "NONE", props |-> MakeProps(-8, 1, 0, 1)],
    [elastic |-> "NEO_HOOKEAN", hardening |-> "LINEAR_ISOTROPIC",
     props |-> MakeProps(0, 1, 1, 1)],
    [elastic |-> "LINEAR_ELASTIC", hardening |-> "POWER_LAW",
     props |-> MakeProps(0, 1, 1, 2)] }

\* the stress unit of a material: the decimal exponent of its E
UnitExp(props) == Prop(props, 0)[2] + 3

\* trial stresses of amplitude a: normal stresses 2a, 0, a
TrialStresses(k) ==
  { << <<Round(2 * a, k), Zero, Zero>>, <<Zero, Zero, Zero>>, <<Zero, Zero, Round(a, k)>> >> :
      a \in 1..MaxAmp }

\* deformation gradients: a stretch 1 + a/2 along x and a simple shear a/2
Stretch(a) ==
  << <<FAdd(Lit(1), FDiv(Lit(a), Lit(2))), Zero, Zero>>, <<Zero, Lit(1), Zero>>,
     <<Zero, Zero, Lit(1)>> >>
Shear(a) ==
  << <<Lit(1), FDiv(Lit(a), Lit(2)), Zero>>, <<Zero, Lit(1), Zero>>, <<Zero, Zero, Lit(1)>> >>
Deformations == {Stretch(a) : a \in 0..MaxAmp} \cup {Shear(1)}
HostDeformations == {Stretch(1)}

TimeSteps == {Lit(1), Round(1, -3)}
Densities == {Lit(1)}
temp == Lit(298)

(***************************************************************************)
(* lgr_linear_algebra.cpp: vectors are sequences of doubles, a GlobalMatrix *)
(* is in compressed-row form: rows_to_columns.a2ab holds the offset of each *)
(* row, rows_to_columns.ab2b the column of each stored entry (both counted  *)
(* from 0 as in the code), entries the stored values                        *)
(***************************************************************************)
\* the loop of matvec over the stored entries of one row:
\* value += mat.entries[row_col] * vec[col]
RECURSIVE RowValue(_, _, _, _, _)
RowValue(mat, vec, row_col, end, value) ==
  IF row_col < end
  THEN RowValue(mat, vec, row_col + 1, end,
                FAdd(value, FMul(mat.entries[row_col + 1], vec[mat.ab2b[row_col + 1] + 1])))
  ELSE value

\* matvec(mat, vec, result) with n = result.size()
matvec(mat, vec, n) ==
  [row \in 1..n |-> RowValue(mat, vec, mat.a2ab[row], mat.a2ab[row + 1], Zero)]

\* transform_reduce of a[row] * b[row] with plus, from init = 0.0, in row order
RECURSIVE DotFrom(_, _, _, _)
DotFrom(a, b, row, acc) ==
  IF row > Len(a) THEN acc ELSE DotFrom(a, b, row + 1, FAdd(acc, FMul(a[row], b[row])))
dot(a, b) == DotFrom(a, b, 1, Zero)

\* result[i] = a * x[i] + y[i], over result.size() entries
axpy(a, x, y, n) == [i \in 1..n |-> FAdd(FMul(a, x[i]), y[i])]

\* a variant with <= in place of <
ResidualBelowOrAt(rs, max_residual_magnitude) == FLe(FSqrt(rs), max_residual_magnitude)

\* std::sqrt(rsold) < max_residual_magnitude, std::sqrt(rsnew) < max_residual_magnitude
ResidualBelow(rs, max_residual_magnitude) == FLt(FSqrt(rs), max_residual_magnitude)

\* for (int i = 0; i < b.size(); ++i)
CGContinues(i, b) == i < Len(b)

\* the matrices handed to conjugate_gradient: tridiagonal with diagonal d,
\* lower diagonal l and upper diagonal u; zero entries are not stored
MaxDim == 2
TridiagEntry(i, j, d, l, u) ==
  IF i = j THEN d ELSE IF i = j + 1 THEN l ELSE IF j = i + 1 THEN u ELSE 0
StoredCols(n, i, d, l, u) ==
  SelectSeq([j \in 1..n |-> j], LAMBDA j : TridiagEntry(i, j, d, l, u) # 0)
RECURSIVE TridiagRows(_, _, _, _, _, _)
TridiagRows(n, i, d, l, u, mat) ==
  IF i > n THEN mat
  ELSE TridiagRows(n, i + 1, d, l, u,
         [a2ab |-> Append(mat.a2ab, Len(mat.ab2b) + Len(StoredCols(n, i, d, l, u))),
          ab2b |-> mat.ab2b \o [k \in 1..Len(StoredCols(n, i, d, l, u)) |->
                                  StoredCols(n, i, d, l, u)[k] - 1],
          entries |-> mat.entries \o [k \in 1..Len(StoredCols(n, i, d, l, u)) |->
                        Lit(TridiagEntry(i, StoredCols(n, i, d, l, u)[k], d, l, u))]])
EmptyMatrix == [a2ab |-> <<0>>, ab2b |-> <<>>, entries |-> <<>>]
Tridiag(n, d, l, u) == TridiagRows(n, 1, d, l, u, EmptyMatrix)
Matrices(n) == {Tridiag(n, d, l, u) : d \in {-1, 1, 2}, l \in {-1, 0, 1}, u \in {-1, 0, 1}}
RightHandSides(n) == [1..n -> {Zero, Lit(1), Lit(2)}]
Guesses(n) == {[i \in 1..n |-> Zero], [i \in 1..n |-> Lit(1)]}
Tolerances == {Round(1, -3), Lit(1), Lit(4)}

(***************************************************************************)
(* State                                                                   *)
(***************************************************************************)
VARIABLES
  elastic, hardening, props,   \* the material model of the point
  T, Fp, ep, epdot,        \* the state the caller owns
  wave_speed,
  flag,                    \* the StateFlag argument of radial_return
  pc, caller, ncalls,
  Te, F, dtime,            \* arguments of radial_return
  gamma, Y, f, S0, norm_S0, N, iter, conv,   \* locals of radial_return
  jac, Bbe, bzz_old, bbe_i, bbe_err,         \* find_bbe
  err, eval_err,           \* the values radial_return and eval return
  h,                       \* history of the current call
  cg_pc,                   \* conjugate_gradient: "idle", "loop" or "done"
  cg_A, cg_b, cg_x, max_residual_magnitude,   \* its arguments A, b, x, tolerance
  cg_n, cg_r, cg_p, cg_Ap, rsold, cg_i,        \* its locals n, r, p, Ap, rsold, i
  cg_ret,                  \* the value it returns
  cg_h                     \* history of the call: x on entry, the residual norms

vars == <<elastic, hardening, props, T, Fp, ep, epdot, wave_speed, flag, pc, caller, ncalls,
          Te, F, dtime, gamma, Y, f, S0, norm_S0, N, iter, conv,
          jac, Bbe, bzz_old, bbe_i, bbe_err, err, eval_err, h,
          cg_pc, cg_A, cg_b, cg_x, max_residual_magnitude, cg_n, cg_r, cg_p, cg_Ap, rsold,
          cg_i, cg_ret, cg_h>>

cg_vars == <<cg_pc, cg_A, cg_b, cg_x, max_residual_magnitude, cg_n, cg_r, cg_p, cg_Ap, rsold,
             cg_i, cg_ret, cg_h>>
hyper_vars == <<elastic, hardening, props, T, Fp, ep, epdot, wave_speed, flag, pc, caller,
                ncalls, Te, F, dtime, gamma, Y, f, S0, norm_S0, N, iter, conv,
                jac, Bbe, bzz_old, bbe_i, bbe_err, err, eval_err, h>>

material == <<elastic, hardening, props>>
args == <<Te, F, dtime>>
rr_locals == <<gamma, Y, f, S0, norm_S0, N, iter, conv>>
bbe_locals == <<jac, Bbe, bzz_old, bbe_i, bbe_err>>

NoHistory ==
  [remapped_in |-> FALSE, ep_in |-> Zero, Fp_in |-> identity_matrix, f_init |-> Zero,
   branch |-> "none", accept |-> "none", passed |-> 0, iters |-> 0,
   T_pre |-> ZeroMat, p |-> Zero, corrected |-> FALSE, bbe_calls |-> 0, bbe_iters |-> 0,
   bbe_hit |-> FALSE, Fp_written |-> FALSE]

FrameReset ==
  /\ Te' = ZeroMat /\ F' = identity_matrix /\ dtime' = Zero
  /\ gamma' = Zero /\ Y' = Zero /\ f' = Zero /\ S0' = ZeroMat /\ norm_S0' = Zero
  /\ N' = ZeroMat /\ iter' = 0 /\ conv' = 0
  /\ jac' = Zero /\ Bbe' = ZeroMat /\ bzz_old' = Zero /\ bbe_i' = 0 /\ bbe_err' = "NOT_SET"

Init ==
  /\ \E m \in Materials :
       elastic = m.elastic /\ hardening = m.hardening /\ props = m.props
  /\ T = ZeroMat /\ Fp = identity_matrix /\ ep = Zero /\ epdot = Zero
  /\ wave_speed = Zero /\ flag = "NONE"
  /\ pc = "idle" /\ caller = "none" /\ ncalls = 0
  /\ Te = ZeroMat /\ F = identity_matrix /\ dtime = Zero
  /\ gamma = Zero /\ Y = Zero /\ f = Zero /\ S0 = ZeroMat /\ norm_S0 = Zero
  /\ N = ZeroMat /\ iter = 0 /\ conv = 0
  /\ jac = Zero /\ Bbe = ZeroMat /\ bzz_old = Zero /\ bbe_i = 0 /\ bbe_err = "NOT_SET"
  /\ err = "NOT_SET" /\ eval_err = "NOT_SET"
  /\ h = NoHistory
  /\ cg_pc = "idle" /\ cg_A = EmptyMatrix /\ cg_b = <<>> /\ cg_x = <<>>
  /\ max_residual_magnitude = Zero /\ cg_n = 0 /\ cg_r = <<>> /\ cg_p = <<>>
  /\ cg_Ap = <<>> /\ rsold = Zero /\ cg_i = 0 /\ cg_ret = -1
  /\ cg_h = [x_in |-> <<>>, norms |-> <<>>]

(***************************************************************************)
(* eval, up to its call of radial_return (lines 660-690)                   *)
(***************************************************************************)
EvalCall ==
  /\ UNCHANGED cg_vars
  /\ pc = "idle" /\ ncalls < MaxCalls
  /\ \E Fin \in Deformations, dt \in TimeSteps, rho \in Densities :
       /\ wave_speed' = WaveSpeed(props, rho)
       /\ Te' = Predictor(elastic, props, Fin, Fp)
       /\ F' = Fin /\ dtime' = dt
  /\ flag' = "TRIAL"
  /\ caller' = "eval" /\ ncalls' = ncalls + 1 /\ pc' = "rr_enter"
  /\ err' = "NOT_SET" /\ eval_err' = "NOT_SET"
  /\ h' = [NoHistory EXCEPT !.remapped_in = FALSE, !.ep_in = ep, !.Fp_in = Fp]
  /\ UNCHANGED <<material, T, Fp, ep, epdot, rr_locals, bbe_locals>>

(***************************************************************************)
(* radial_return called by the host itself, with a trial stress and a flag *)
(* of its own (REMAPPED is entered this way)                               *)
(***************************************************************************)
HostCall ==
  /\ UNCHANGED cg_vars
  /\ pc = "idle" /\ ncalls < MaxCalls
  /\ \E TeIn \in TrialStresses(UnitExp(props)), Fin \in HostDeformations,
        dt \in TimeSteps, fl \in StateFlag :
       /\ Te' = TeIn /\ F' = Fin /\ dtime' = dt /\ flag' = fl
       /\ h' = [NoHistory EXCEPT !.remapped_in = (fl = "REMAPPED"), !.ep_in = ep,
                                 !.Fp_in = Fp]
  /\ caller' = "host" /\ ncalls' = ncalls + 1 /\ pc' = "rr_enter"
  /\ err' = "NOT_SET" /\ eval_err' = "NOT_SET"
  /\ UNCHANGED <<material, T, Fp, ep, epdot, wave_speed, rr_locals, bbe_locals>>

(***************************************************************************)
(* radial_return, lines 475-508: the yield check and the choice of branch  *)
(***************************************************************************)
RREnter ==
  /\ UNCHANGED cg_vars
  /\ pc = "rr_enter"
  /\ gamma' = GammaSeed(epdot, dtime)
  /\ Y' = flow_stress(hardening, props, temp, ep, epdot)
  /\ S0' = deviator(Te)
  /\ norm_S0' = norm(S0')
  /\ f' = YieldValue(norm_S0', Y')
  /\ iter' = 0 /\ conv' = 0
  /\ IF IsElastic(f')
     THEN /\ T' = ElasticStress(Te)
          /\ flag' = SetFlag(SetFlag(flag, "TRIAL"), "ELASTIC")
          /\ N' = N
          /\ pc' = "rr_recover"
          /\ h' = [h EXCEPT !.f_init = f', !.branch = "elastic"]
     ELSE /\ T' = T
          /\ flag' = SetFlag(SetFlag(flag, "TRIAL"), "PLASTIC")
          /\ N' = MDivS(S0', norm_S0')
          /\ pc' = "rr_loop"
          /\ h' = [h EXCEPT !.f_init = f', !.branch = "plastic"]
  /\ UNCHANGED <<material, Fp, ep, epdot, wave_speed, caller, ncalls, args, bbe_locals,
                 err, eval_err>>

\* a variant that lets the loop run one pass longer: iter <= 100
LoopContinuesLate(i) == i <= rr_maxit

\* the loop condition iter < 100
LoopContinues(i) == i < rr_maxit

(***************************************************************************)
(* radial_return, lines 510-556: one iteration of the return mapping       *)
(***************************************************************************)
NewtonIter ==
  /\ UNCHANGED cg_vars
  /\ pc = "rr_loop" /\ LoopContinues(iter)
  /\ \E r \in {NewtonBody(hardening, props, temp, dtime, S0, norm_S0, N, gamma, ep, epdot,
                           iter)} :
     LET ok == AcceptF(r.f) \/ AcceptDGamma(r.dgamma, dtime) \/ AcceptWeak(iter, r.f)
         how == IF AcceptF(r.f) THEN "f"
                ELSE IF AcceptDGamma(r.dgamma, dtime) THEN "dgamma"
                ELSE IF AcceptWeak(iter, r.f) THEN "weak" ELSE "none"
     IN /\ Y' = r.Y /\ gamma' = r.gamma /\ epdot' = r.epdot /\ ep' = r.ep /\ f' = r.f
        /\ conv' = r.conv
        /\ h' = [h EXCEPT !.iters = @ + 1, !.passed = IF ok THEN @ + 1 ELSE @,
                          !.accept = how]
        /\ IF r.conv # 0
           THEN iter' = iter /\ pc' = "rr_post"
           ELSE /\ iter' = iter + 1
                /\ pc' = IF LoopContinues(iter + 1) THEN "rr_loop" ELSE "rr_post"
  /\ UNCHANGED <<material, T, Fp, wave_speed, flag, caller, ncalls, args, S0, norm_S0, N,
                 bbe_locals, err, eval_err>>

(***************************************************************************)
(* radial_return, lines 558-566: the stress update and the failure return  *)
(***************************************************************************)
RRPost ==
  /\ UNCHANGED cg_vars
  /\ pc = "rr_post"
  /\ T' = ReturnedStress(Te, TwoMu(props), gamma, N)
  /\ IF NotConverged(conv)
     THEN err' = "RADIAL_RETURN_FAILURE" /\ pc' = "rr_ret"
     ELSE err' = err /\ pc' = "rr_recover"
  /\ UNCHANGED <<material, Fp, ep, epdot, wave_speed, flag, caller, ncalls, args,
                 rr_locals, bbe_locals, eval_err, h>>

(***************************************************************************)
(* radial_return, lines 569-574, and find_bbe, lines 248-276               *)
(***************************************************************************)
RRRecover ==
  /\ UNCHANGED cg_vars
  /\ pc = "rr_recover"
  /\ IF NeedsRecovery(flag)
     THEN /\ jac' = determinant(F)
          /\ Bbe' = MDivS(deviator(T), ShearModulus(props))
          /\ bzz_old' = Lit(1) /\ bbe_i' = 0 /\ bbe_err' = "NOT_SET"
          /\ h' = [h EXCEPT !.bbe_calls = @ + 1]
          /\ err' = err /\ pc' = "bbe_loop"
     ELSE /\ UNCHANGED <<bbe_locals, h>>
          /\ err' = "SUCCESS" /\ pc' = "rr_ret"
  /\ UNCHANGED <<material, T, Fp, ep, epdot, wave_speed, flag, caller, ncalls, args,
                 rr_locals, eval_err>>

\* the loop condition i < maxit of find_bbe
BbeContinues(i) == i < bbe_maxit

(***************************************************************************)
(* find_bbe, lines 277-288: one Newton iteration                           *)
(***************************************************************************)
BbeIter ==
  /\ UNCHANGED cg_vars
  /\ pc = "bbe_loop" /\ BbeContinues(bbe_i)
  /\ \E mu \in {ShearModulus(props)} : \E bzz_new \in {bbe_newton(T, mu, bzz_old)} :
        /\ Bbe' = bbe_set_diag(Bbe, T, mu, bzz_new)
        /\ h' = [h EXCEPT !.bbe_iters = @ + 1,
                          !.bbe_hit = @ \/ bbe_converged(bzz_new, bzz_old)]
        /\ IF bbe_converged(bzz_new, bzz_old)
           THEN /\ bbe_err' = "SUCCESS" /\ pc' = "rr_finish"
                /\ bzz_old' = bzz_old /\ bbe_i' = bbe_i
           ELSE /\ bzz_old' = bzz_new /\ bbe_i' = bbe_i + 1
                /\ IF BbeContinues(bbe_i + 1)
                   THEN bbe_err' = bbe_err /\ pc' = "bbe_loop"
                   ELSE bbe_err' = "ELASTIC_DEFORMATION_UPDATE_FAILURE" /\ pc' = "rr_finish"
  /\ UNCHANGED <<material, T, Fp, ep, epdot, wave_speed, flag, caller, ncalls, args,
                 rr_locals, jac, err, eval_err>>

(***************************************************************************)
(* radial_return, lines 575-591: Fp and the REMAPPED pressure correction   *)
(***************************************************************************)
RRFinish ==
  /\ UNCHANGED cg_vars
  /\ pc = "rr_finish"
  /\ IF BbeFailed(bbe_err)
     THEN /\ err' = bbe_err
          /\ UNCHANGED <<T, Fp, h>>
     ELSE /\ Fp' = PlasticGradient(Bbe, jac, F)
          /\ err' = "SUCCESS"
          /\ IF flag = "REMAPPED"
             THEN \E p \in {RemapPressure(props, jac, T)} :
                     /\ T' = RemapCorrect(T, p)
                     /\ h' = [h EXCEPT !.T_pre = T, !.p = p, !.corrected = TRUE,
                                       !.Fp_written = TRUE]
             ELSE /\ T' = T
                  /\ h' = [h EXCEPT !.Fp_written = TRUE]
  /\ pc' = "rr_ret"
  /\ UNCHANGED <<material, ep, epdot, wave_speed, flag, caller, ncalls, args, rr_locals,
                 bbe_locals, eval_err>>

(***************************************************************************)
(* the return to the caller; eval hands the error code on (lines 691-695)  *)
(***************************************************************************)
Return ==
  /\ UNCHANGED cg_vars
  /\ pc = "rr_ret"
  /\ eval_err' = IF caller = "eval" THEN err ELSE eval_err
  /\ pc' = "idle"
  /\ FrameReset
  /\ UNCHANGED <<material, T, Fp, ep, epdot, wave_speed, flag, caller, ncalls, err, h>>

Next ==
  \/ EvalCall
  \/ HostCall
  \/ RREnter
  \/ NewtonIter
  \/ RRPost
  \/ RRRecover
  \/ BbeIter
  \/ RRFinish
  \/ Return

Spec == Init /\ [][Next]_vars

(***************************************************************************)
(* conjugate_gradient (lgr_linear_algebra.cpp lines 48-88)                  *)
(***************************************************************************)
\* lines 57-68: r = b - A * x, p = r, rsold = r . r, return 0 when the
\* residual is already below the tolerance
CGCall ==
  /\ cg_pc = "idle"
  /\ \E n \in 1..MaxDim :
       \E A \in Matrices(n), b \in RightHandSides(n), x \in Guesses(n), tol \in Tolerances :
         \E r \in {axpy(Lit(-1), matvec(A, x, n), b, n)} :
           \E rs \in {dot(r, r)} :
             /\ cg_A' = A /\ cg_b' = b /\ cg_x' = x /\ max_residual_magnitude' = tol
             /\ cg_n' = n /\ cg_r' = r /\ cg_p' = r /\ rsold' = rs
             /\ cg_h' = [x_in |-> x, norms |-> <<FSqrt(rs)>>]
             /\ IF ResidualBelow(rs, tol)
                THEN cg_pc' = "done" /\ cg_ret' = 0
                ELSE cg_pc' = "loop" /\ cg_ret' = cg_ret
  /\ cg_Ap' = cg_Ap /\ cg_i' = 0
  /\ UNCHANGED hyper_vars

\* lines 70-86: one pass of the loop
CGIter ==
  /\ cg_pc = "loop" /\ CGContinues(cg_i, cg_b)
  /\ \E Ap \in {matvec(cg_A, cg_p, cg_n)} :
       \E alpha \in {FDiv(rsold, dot(cg_p, Ap))} :
         \E r \in {axpy(alpha, Ap, cg_r, cg_n)} :
           \E rsnew \in {dot(r, r)} :
             /\ cg_Ap' = Ap
             /\ cg_x' = axpy(alpha, cg_p, cg_x, cg_n)
             /\ cg_r' = r
             /\ cg_h' = [cg_h EXCEPT !.norms = Append(@, FSqrt(rsnew))]
             /\ IF ResidualBelow(rsnew, max_residual_magnitude)
                THEN /\ cg_pc' = "done" /\ cg_ret' = cg_i + 1
                     /\ UNCHANGED <<cg_p, rsold, cg_i>>
                ELSE /\ cg_p' = axpy(FDiv(rsnew, rsold), cg_p, r, cg_n)
                     /\ rsold' = rsnew /\ cg_i' = cg_i + 1
                     /\ UNCHANGED <<cg_pc, cg_ret>>
  /\ UNCHANGED <<cg_A, cg_b, max_residual_magnitude, cg_n>>
  /\ UNCHANGED hyper_vars

\* line 87: return b.size() + 1
CGExit ==
  /\ cg_pc = "loop" /\ ~CGContinues(cg_i, cg_b)
  /\ cg_pc' = "done" /\ cg_ret' = Len(cg_b) + 1
  /\ UNCHANGED <<cg_A, cg_b, cg_x, max_residual_magnitude, cg_n, cg_r, cg_p, cg_Ap, rsold,
                 cg_i, cg_h>>
  /\ UNCHANGED hyper_vars

CGInit == Init /\ elastic = "LINEAR_ELASTIC" /\ props = MakeProps(0, 1, 0, 1)

CGNext ==
  \/ CGCall
  \/ CGIter
  \/ CGExit

CGSpec == CGInit /\ [][CGNext]_vars

(***************************************************************************)
(* Properties                                                              *)
(***************************************************************************)
\* radial_return is about to hand its error code to the caller
AtReturn == pc = "rr_ret"

\* C1 as stated: whenever radial_return takes the elastic branch, on return T
\* equals Te component for component and Fp has the value it had on entry,
\* for every entry value of the flag, REMAPPED included.
C1_AnyFlag ==
  (AtReturn /\ h.branch = "elastic") => (T = Te /\ Fp = h.Fp_in)

\* C1, amended: whenever radial_return is entered with a flag other than
\* REMAPPED and takes the elastic branch, on return T equals Te component for
\* component and Fp has the value it had on entry.
C1_ElasticFrame ==
  (AtReturn /\ h.branch = "elastic" /\ ~h.remapped_in) => (T = Te /\ Fp = h.Fp_in)

C1_Witness ==
  /\ AtReturn /\ h.branch = "elastic" /\ ~h.remapped_in
  /\ err = "SUCCESS" /\ h.Fp_in # identity_matrix /\ T # ZeroMat

\* C2: over any sequence of eval and radial_return calls with dtime > 0 the
\* equivalent plastic strain ep never decreases: the value of ep when a call
\* returns is >= its value when the call was entered, whatever branch is
\* taken and whatever error code is returned.
C2_EpMonotone == AtReturn => FLe(h.ep_in, ep)

\* C3: if radial_return is entered with flag = REMAPPED, the flag is REMAPPED
\* in every state of the call and on every return path; it is never
\* overwritten with TRIAL, ELASTIC or PLASTIC.
C3_RemappedKept == h.remapped_in => flag = "REMAPPED"

C3_Witness ==
  AtReturn /\ h.remapped_in /\ flag = "REMAPPED" /\ err = "RADIAL_RETURN_FAILURE"

\* the number of steps radial_return can still take from a position: the
\* positions in program order, each loop position counted once for every pass
\* its cap still allows
CallRank(p, passes, bbe_passes) ==
  CASE p = "idle" -> 0
    [] p = "rr_ret" -> 1
    [] p = "rr_finish" -> 2
    [] p = "bbe_loop" -> 3 + (bbe_maxit - bbe_passes)
    [] p = "rr_recover" -> 4 + bbe_maxit
    [] p = "rr_post" -> 5 + bbe_maxit
    [] p = "rr_loop" -> 6 + bbe_maxit + (rr_maxit - passes)
    [] p = "rr_enter" -> 7 + bbe_maxit + rr_maxit

\* C4: every call of find_bbe and of radial_return terminates: every step of a
\* call strictly lowers the number of steps still possible, the return-mapping
\* loop makes at most 100 passes and the Newton loop of find_bbe at most 25, a
\* loop is entered again only below its cap, and at the return an ErrorCode
\* value is set.
C4_Terminates ==
  [][pc # "idle" =>
       /\ CallRank(pc', h'.iters, h'.bbe_iters) < CallRank(pc, h.iters, h.bbe_iters)
       /\ CallRank(pc', h'.iters, h'.bbe_iters) >= 0
       /\ h'.iters <= rr_maxit /\ h'.bbe_iters <= bbe_maxit
       /\ (pc' = "rr_loop" => iter' < rr_maxit)
       /\ (pc' = "bbe_loop" => bbe_i' < bbe_maxit)
       /\ (pc' = "rr_ret" => err' \in ErrorCode \ {"NOT_SET"})]_vars

C4_Witness ==
  /\ AtReturn /\ h.iters = rr_maxit /\ err = "RADIAL_RETURN_FAILURE"

\* C5: radial_return returns RADIAL_RETURN_FAILURE if and only if the plastic
\* branch is taken and in none of its 100 iterations an acceptance test
\* succeeds (f < 1e-12, |dgamma| < min(dtime, 1e-6), or f <= 1e-9 after
\* iteration 24); if an acceptance test succeeds in some iteration,
\* RADIAL_RETURN_FAILURE is not returned.
C5_FailureIffNoAcceptance ==
  AtReturn =>
    /\ (err = "RADIAL_RETURN_FAILURE") <=>
         (h.branch = "plastic" /\ h.iters = rr_maxit /\ h.passed = 0)
    /\ (h.passed > 0 => err # "RADIAL_RETURN_FAILURE")

C5_Witness ==
  /\ AtReturn /\ caller = "eval" /\ err = "RADIAL_RETURN_FAILURE"
  /\ h.branch = "plastic" /\ h.passed = 0

\* C6: if find_bbe does not satisfy its step test in any of its 25 iterations
\* it returns ELASTIC_DEFORMATION_UPDATE_FAILURE, that code is the return value
\* of radial_return and of eval, and Fp is left at its entry value; Fp is
\* written only after find_bbe returned SUCCESS.
C6_BbeFailure ==
  /\ (pc = "rr_finish" /\ ~h.bbe_hit) =>
       (bbe_err = "ELASTIC_DEFORMATION_UPDATE_FAILURE" /\ h.bbe_iters = bbe_maxit)
  /\ (AtReturn /\ h.bbe_calls > 0 /\ ~h.bbe_hit) =>
       (err = "ELASTIC_DEFORMATION_UPDATE_FAILURE" /\ Fp = h.Fp_in)
  /\ (pc = "idle" /\ caller = "eval" /\ h.bbe_calls > 0 /\ ~h.bbe_hit) =>
       (eval_err = "ELASTIC_DEFORMATION_UPDATE_FAILURE" /\ Fp = h.Fp_in)
  /\ (Fp # h.Fp_in => h.bbe_hit)

C6_Witness ==
  /\ pc = "idle" /\ caller = "eval" /\ h.bbe_calls > 0 /\ ~h.bbe_hit
  /\ eval_err = "ELASTIC_DEFORMATION_UPDATE_FAILURE"
  /\ h.Fp_in # identity_matrix

\* the yield value of the returned state: ||dev T||/sqrt(2) - Y/sqrt(3) with
\* Y the flow stress at the returned ep and epdot
ReturnedYieldValue ==
  YieldValue(norm(deviator(T)), flow_stress(hardening, props, temp, ep, epdot))

\* C7 as stated: on every return of radial_return with SUCCESS from the plastic
\* branch (flag PLASTIC) the returned stress and plastic strain are
\* yield-consistent, ||dev T||/sqrt(2) - Y(ep_new)/sqrt(3) <= 1e-9, for each of
\* the three ways the iteration can be accepted.
C7_YieldConsistent ==
  (AtReturn /\ err = "SUCCESS" /\ h.branch = "plastic" /\ flag = "PLASTIC") =>
    FLe(ReturnedYieldValue, Round(1, -9))

\* a and b agree up to the rounding of a stress of the size scale: they differ
\* by at most a hundredth of it
Near(a, b, scale) == FLe(FAbs(FSub(a, b)), FMul(Round(1, -2), scale))

\* the mean normal stress tr(X)/3
MeanNormal(X) == FDiv(trace(X), Lit(3))

\* C8 as stated: when radial_return runs with flag = REMAPPED, the pressure
\* correction replaces only the spherical part of T: afterwards the mean normal
\* stress of T is p = 2J/D1*(J-1) - tr(T_before)/3, and the deviator of T, its
\* off-diagonal and its deviatoric diagonal entries, is the same as before the
\* correction (both up to rounding).
C8_OnlySphericalPart ==
  (AtReturn /\ h.corrected) =>
    /\ Near(MeanNormal(T), h.p, FAdd(norm(h.T_pre), FAbs(h.p)))
    /\ \A i \in Idx : \A j \in Idx :
         Near(deviator(T)[i][j], deviator(h.T_pre)[i][j], FAdd(norm(h.T_pre), FAbs(h.p)))

\* C9 as stated: on every successful plastic return of radial_return dev T is
\* a non-negative multiple of dev Te: the scalar ||dev Te|| - twomu*gamma is
\* >= 0 for the accepted gamma, for every admissible entry value of epdot.
C9_SameDirection ==
  (AtReturn /\ err = "SUCCESS" /\ h.branch = "plastic") =>
    FLe(Zero, FSub(norm_S0, FMul(TwoMu(props), gamma)))

\* C10 as stated: for radial_return entered with a flag other than REMAPPED the
\* flag on return is ELASTIC exactly when the initial yield value f is <= 1e-12
\* and PLASTIC otherwise, never NONE or TRIAL, also when an error code is
\* returned, and find_bbe runs exactly when the flag is not ELASTIC.
C10_FlagAndRecovery ==
  (AtReturn /\ ~h.remapped_in) =>
    /\ (flag = "ELASTIC") <=> FLe(h.f_init, Round(1, -12))
    /\ flag \in {"ELASTIC", "PLASTIC"}
    /\ (h.bbe_calls > 0) <=> (flag # "ELASTIC")

\* C10, amended: for radial_return entered with a flag other than REMAPPED the
\* flag on return is ELASTIC exactly when the initial yield value f is <= 1e-12
\* and PLASTIC otherwise, never NONE or TRIAL, also when an error code is
\* returned, and find_bbe runs exactly when the flag is not ELASTIC and the
\* return mapping did not end with RADIAL_RETURN_FAILURE.
C10_FlagAndRecoveryConverged ==
  (AtReturn /\ ~h.remapped_in) =>
    /\ (flag = "ELASTIC") <=> FLe(h.f_init, Round(1, -12))
    /\ flag \in {"ELASTIC", "PLASTIC"}
    /\ (h.bbe_calls > 0) <=> (flag # "ELASTIC" /\ err # "RADIAL_RETURN_FAILURE")

C10_Witness ==
  /\ AtReturn /\ ~h.remapped_in /\ caller = "host"
  /\ flag = "PLASTIC" /\ err = "RADIAL_RETURN_FAILURE" /\ h.bbe_calls = 0

\* the plastic strain added by the call, the strain the reported rate accounts
\* for, and the strain of the accepted multiplier
AddedStrain == FSub(ep, h.ep_in)
RateStrain == FMul(epdot, dtime)
MultiplierStrain == FMax(FMul(sq23, gamma), Zero)

\* C11 as stated: after radial_return returns SUCCESS from the plastic branch,
\* ep_out - ep_in = epdot_out * dtime = max(sqrt(2/3) * gamma_final, 0) (up to
\* rounding), however many Newton iterations ran before acceptance.
C11_StrainConsistent ==
  (AtReturn /\ err = "SUCCESS" /\ h.branch = "plastic") =>
    /\ Near(AddedStrain, RateStrain, FAdd(ep, MultiplierStrain))
    /\ Near(RateStrain, MultiplierStrain, MultiplierStrain)

\* b - A * x of the current iterate, computed as lines 59-60 compute it
TrueResidual == axpy(Lit(-1), matvec(cg_A, cg_x, cg_n), cg_b, cg_n)

\* the magnitude the entries of the residual are compared at
ResidualScale == FAdd(FSqrt(dot(cg_b, cg_b)), FSqrt(dot(cg_r, cg_r)))

FiniteVector(v) == \A k \in 1..Len(v) : IsFin(v[k])

\* C12 as stated: in conjugate_gradient r is the true residual of the current
\* iterate: r = b - A * x (up to rounding) after the initialisation and after
\* the x and r updates of every loop iteration, for every A, b and x.
C12_TrueResidual ==
  (cg_pc \in {"loop", "done"} /\ FiniteVector(cg_r) /\ FiniteVector(cg_x)) =>
    \A k \in 1..cg_n : Near(cg_r[k], TrueResidual[k], ResidualScale)

\* the residual norm of pass k (k = 0: of the initialisation) is below the
\* tolerance
NormBelow(k) ==
  k + 1 <= Len(cg_h.norms) /\ FLt(cg_h.norms[k + 1], max_residual_magnitude)

\* the return value is in 0..n+1 and names the first pass with the residual
\* norm below the tolerance
CGReturnValue ==
  /\ cg_ret \in 0..(Len(cg_b) + 1)
  /\ Len(cg_h.norms) - 1 <= Len(cg_b)
  /\ (cg_ret = 0) <=> NormBelow(0)
  /\ (cg_ret = 0) => cg_x = cg_h.x_in
  /\ \A k \in 1..Len(cg_b) :
       (cg_ret = k) <=> (NormBelow(k) /\ \A j \in 0..(k - 1) : ~NormBelow(j))
  /\ (cg_ret = Len(cg_b) + 1) <=>
       (Len(cg_h.norms) = Len(cg_b) + 1 /\ \A j \in 0..Len(cg_b) : ~NormBelow(j))

\* the number of steps conjugate_gradient has left at most
CGRank(p, i) ==
  CASE p = "done" -> 0
    [] p = "loop" -> 2 + (MaxDim - i)
    [] p = "idle" -> 4 + MaxDim

\* C13: conjugate_gradient terminates after at most n = b.size() loop
\* iterations (every step brings it nearer to its return, no pass starts
\* with i >= n) and its return value is in 0..n+1: 0 iff the initial residual
\* norm sqrt(r.r) is below max_residual_magnitude (x is then not modified),
\* k in 1..n iff pass k is the first whose residual norm is below it, n+1 iff
\* the residual norm was never below it.
C13_ReturnValue ==
  [][/\ CGRank(cg_pc', cg_i') < CGRank(cg_pc, cg_i)
     /\ cg_i' <= Len(cg_b')
     /\ Len(cg_h'.norms) = (IF cg_pc' = "done" /\ cg_ret' <= Len(cg_b') THEN cg_ret' ELSE cg_i') + 1
     /\ (cg_pc' = "done" => CGReturnValue')]_vars

C13_Witness ==
  /\ cg_pc = "done" /\ cg_n = MaxDim /\ cg_ret = cg_n + 1 /\ cg_i = cg_n
  /\ cg_x # cg_h.x_in /\ Len(cg_h.norms) = cg_n + 1
  /\ FiniteVector(cg_r)

=============================================================================
